---- MODULE Spec2Model ----
(***************************************************************************)
(* voluptuous_openapi.convert: the translation of a voluptuous schema tree *)
(* into an OpenAPI schema object (src/voluptuous_openapi/__init__.py).     *)
(*                                                                         *)
(* convert is a pure recursive function.  It is modelled as the RECURSIVE  *)
(* operator convert(_); a call is a two-step behaviour: the caller holds a *)
(* schema (pc = "call"), then the call either returns a fragment           *)
(* (pc = "returned") or raises (pc = "raised").  No Extension Hook         *)
(* (custom_serializer = None) is modelled.                                 *)
(*                                                                         *)
(* Representation.                                                         *)
(*   A Python dict fragment is a function from the output vocabulary       *)
(*   FragKeys to a sequence: <<>> when the key is absent, <<v>> when the   *)
(*   key holds v.  Dict equality is then function equality.                *)
(*   A schema node is a record with a kind k and the attributes the code   *)
(*   reads from that kind of object.                                       *)
(*   A literal is a record with its runtime type t.                        *)
(***************************************************************************)
EXTENDS Integers, Sequences, FiniteSets, TLC

VARIABLES schema, pc, result, error

vars == <<schema, pc, result, error>>

(***************************************************************************)
(* Literals (str, int, None)                                               *)
(***************************************************************************)
StrLit(s) == [t |-> "str", s |-> s, n |-> 0]

IntLit(n) == [t |-> "int", s |-> "", n |-> n]

NoneLit == [t |-> "NoneType", s |-> "", n |-> 0]

(***************************************************************************)
(* Output fragments                                                        *)
(***************************************************************************)
FragKeys ==
    {"type", "enum", "anyOf", "oneOf", "allOf", "not", "properties", "required",
     "additionalProperties", "items", "minimum", "maximum", "exclusiveMinimum",
     "exclusiveMaximum", "minLength", "maxLength", "format", "pattern",
     "nullable", "description", "default"}

\* {}
Empty == [key \in FragKeys |-> <<>>]

\* key in value
Has(value, key) == value[key] # <<>>

\* value.keys()
Keys(value) == {key \in FragKeys : value[key] # <<>>}

\* value[key]
Get(value, key) == value[key][1]

\* value[key] = v
Put(value, key, v) == [value EXCEPT ![key] = <<v>>]

\* value.pop(key)
Pop(value, key) == [value EXCEPT ![key] = <<>>]

\* val.update(v)
Update(val, v) == [key \in FragKeys |-> IF v[key] # <<>> THEN v[key] ELSE val[key]]

\* The value of additionalProperties: True, or a fragment.
APTrue == [b |-> TRUE, f |-> <<>>]

APFrag(f) == [b |-> FALSE, f |-> <<f>>]

\* {"type": "object", "additionalProperties": True}
Wildcard == Put(Put(Empty, "type", "object"), "additionalProperties", APTrue)

\* The empty properties dict, and properties[name] = pval.
NoProps == [name \in {} |-> Empty]

SetProp(properties, name, pval) == (name :> pval) @@ properties

(***************************************************************************)
(* TYPES_MAP                                                               *)
(***************************************************************************)
TYPES_MAP == [int |-> "integer", str |-> "string", float |-> "number", bool |-> "boolean"]

\* TYPES_MAP.get(type(value), "string")
TypesMapGet(tname) == IF tname \in DOMAIN TYPES_MAP THEN TYPES_MAP[tname] ELSE "string"

(***************************************************************************)
(* Outcomes of a call: a returned fragment, or a raised exception.         *)
(***************************************************************************)
Ok(f) == [st |-> "ok", v |-> f]

Raise(e) == [st |-> e, v |-> Empty]

\* The outcome of converting a list of children in order: the first
\* exception raised, if any.
FirstError(rs) ==
    IF \A i \in 1..Len(rs) : rs[i].st = "ok" THEN "ok"
    ELSE rs[CHOOSE i \in 1..Len(rs) :
                /\ rs[i].st # "ok"
                /\ \A j \in 1..(i - 1) : rs[j].st = "ok"].st

Values(rs) == [i \in 1..Len(rs) |-> rs[i].v]

(***************************************************************************)
(* ensure_default                                                          *)
(***************************************************************************)
\* An ensure_default that never sets the type.
ensure_default_skipped(value) == value

ensure_default(value) ==
    IF \A x \in {"type", "anyOf", "oneOf", "allOf", "not"} : ~Has(value, x)
    THEN Put(value, "type", "string")
    ELSE value

(***************************************************************************)
(* Schema nodes.  k is the kind the code's isinstance/identity tests find; *)
(* the other fields are the attributes read from an object of that kind:   *)
(*   kids    validators / elements / mapping values / wrapped schema /     *)
(*           type arguments                                                *)
(*   keys    mapping keys, aligned with kids                               *)
(*   lit     the literal value, the container of In, the values of an Enum *)
(*   name    a type's or validator's name, a pattern, a container's kind   *)
(*   lo, hi  min and max (<<>> is None)                                    *)
(*   loInc, hiInc   min_included, max_included                             *)
(*   extra   schema.extra == ALLOW_EXTRA                                   *)
(***************************************************************************)
Node(k) ==
    [k |-> k, kids |-> <<>>, keys |-> <<>>, lit |-> <<>>, name |-> "",
     lo |-> <<>>, hi |-> <<>>, loInc |-> TRUE, hiInc |-> TRUE, extra |-> FALSE]

\* A mapping key.  marker: "Required", "Optional" or "none" (a bare key);
\* kind: "str" (a fixed key name), "any" (vol.Any over key names) or "type"
\* (any other object, such as the type str); names: the key name, the
\* members of the any-of set, or the rendering of the object; mdesc: the
\* description of each member of a bare any-of key that is a Marker ("" for
\* none); description ("" is None) and default (<<>> is UNDEFINED) are the
\* marker's.
Key(marker, kind, names) ==
    [marker |-> marker, kind |-> kind, names |-> names,
     mdesc |-> [i \in 1..Len(names) |-> ""], description |-> "", default |-> <<>>]

\* repr of the members of vol.Any: 'a', 'b', ...
RECURSIVE ReprNames(_)
ReprNames(names) ==
    IF names = <<>> THEN ""
    ELSE "'" \o Head(names) \o "', " \o ReprNames(Tail(names))

\* str(pkey)
StrOfKey(key) ==
    IF key.kind = "any" THEN "Any(" \o ReprNames(key.names) \o "msg=None)"
    ELSE key.names[1]

InSeq(x, seq) == \E i \in 1..Len(seq) : seq[i] = x

\* seq.index(x)
IndexOf(seq, x) ==
    CHOOSE i \in 1..Len(seq) : seq[i] = x /\ \A j \in 1..(i - 1) : seq[j] # x

(***************************************************************************)
(* Constraint translators                                                  *)
(***************************************************************************)
\* vol.Clamp, vol.Range
ConvertRange(n) ==
    LET v1 == IF n.lo # <<>>
              THEN IF n.k = "Clamp" \/ n.loInc
                   THEN Put(Empty, "minimum", n.lo[1])
                   ELSE Put(Empty, "exclusiveMinimum", n.lo[1])
              ELSE Empty
    IN  IF n.hi # <<>>
        THEN IF n.k = "Clamp" \/ n.hiInc
             THEN Put(v1, "maximum", n.hi[1])
             ELSE Put(v1, "exclusiveMaximum", n.hi[1])
        ELSE v1

\* vol.Length
ConvertLength(n) ==
    LET v1 == IF n.lo # <<>> THEN Put(Empty, "minLength", n.lo[1]) ELSE Empty
    IN  IF n.hi # <<>> THEN Put(v1, "maxLength", n.hi[1]) ELSE v1

\* vol.Datetime
ConvertDatetime == Put(Put(Empty, "type", "string"), "format", "date-time")

\* vol.Match
ConvertMatch(n) == Put(Empty, "pattern", n.name)

\* vol.In: the container (name) is a list, a Mapping (lit holds its keys),
\* or a set, which cannot be subscripted.
ConvertIn(n) ==
    LET enum_values == n.lit
        enum_type == IF enum_values # <<>>
                     THEN TypesMapGet(enum_values[1].t)
                     ELSE "string"
    IN  IF n.name = "set" /\ enum_values # <<>>
        THEN Raise("TypeError")
        ELSE Ok(Put(Put(Empty, "type", enum_type), "enum", enum_values))

\* vol.Lower ... vol.Strip, vol.Email, vol.Url, vol.FqdnUrl: name is
\* schema.__name__.lower()
ConvertFormat(n) == Put(Empty, "format", n.name)

(***************************************************************************)
(* vol.Any                                                                 *)
(***************************************************************************)
\* val is None or val is NoneType
IsNull(n) == (n.k = "Literal" /\ n.lit[1].t = "NoneType") \/ n.k = "NoneType"

NotNull(n) == ~IsNull(n)

\* item.get("nullable")
IsNullable(item) == Has(item, "nullable") /\ Get(item, "nullable")

\* The loop over anyOf that builds tmpAnyOf.
RECURSIVE DedupLoop(_, _, _)
DedupLoop(anyOf, i, tmpAnyOf) ==
    IF i > Len(anyOf) THEN tmpAnyOf
    ELSE
      LET item == anyOf[i]
          popped == Pop(item, "nullable")
          tmpItem == Put(item, "nullable", TRUE)
      IN  IF InSeq(item, tmpAnyOf)
          THEN DedupLoop(anyOf, i + 1, tmpAnyOf)
          ELSE IF IsNullable(item) /\ InSeq(popped, tmpAnyOf)
          THEN DedupLoop(anyOf, i + 1,
                         [tmpAnyOf EXCEPT ![IndexOf(tmpAnyOf, popped)] =
                                              Put(@, "nullable", TRUE)])
          ELSE IF InSeq(tmpItem, tmpAnyOf)
          THEN DedupLoop(anyOf, i + 1, tmpAnyOf)
          ELSE DedupLoop(anyOf, i + 1, Append(tmpAnyOf, item))

\* A deduplication that removes identical items only, and keeps a fragment
\* beside its nullable twin.
RECURSIVE DedupIdenticalLoop(_, _, _)
DedupIdenticalLoop(anyOf, i, tmpAnyOf) ==
    IF i > Len(anyOf) THEN tmpAnyOf
    ELSE IF InSeq(anyOf[i], tmpAnyOf)
    THEN DedupIdenticalLoop(anyOf, i + 1, tmpAnyOf)
    ELSE DedupIdenticalLoop(anyOf, i + 1, Append(tmpAnyOf, anyOf[i]))

DedupUnionIdenticalOnly(anyOf) == DedupIdenticalLoop(anyOf, 1, <<>>)

DedupUnion(anyOf) == DedupLoop(anyOf, 1, <<>>)

\* The alternatives left once the null ones are separated out.
UnionAlternatives(validators) ==
    IF \E i \in 1..Len(validators) : IsNull(validators[i])
    THEN SelectSeq(validators, NotNull)
    ELSE validators

UnionNullable(validators) == \E i \in 1..Len(validators) : IsNull(validators[i])

\* A union that drops the flag of its null alternative.
ApplyNullableDropped(nullable, res) == res

\* if nullable: result["nullable"] = True
ApplyNullable(nullable, res) == IF nullable THEN Put(res, "nullable", TRUE) ELSE res

\* The result of a union from the fragments of its alternatives (the one
\* alternative's when there is just one).
UnionResult(nullable, anyOf) ==
    LET tmpAnyOf == DedupUnion(anyOf)
        res == IF Len(anyOf) = 1 THEN anyOf[1]
               ELSE IF InSeq(Wildcard, anyOf) THEN Wildcard
               ELSE IF Len(tmpAnyOf) = 1 THEN tmpAnyOf[1]
               ELSE Put(Empty, "anyOf", tmpAnyOf)
    IN  ApplyNullable(nullable, res)

(***************************************************************************)
(* vol.All                                                                 *)
(***************************************************************************)
RECURSIVE AllLoop(_, _, _, _, _)
AllLoop(vs, i, val, fallback, allOf) ==
    IF i > Len(vs)
    THEN IF fallback THEN Put(Empty, "allOf", allOf) ELSE ensure_default(val)
    ELSE
      LET v == vs[i]
          fb == fallback \/ (Keys(v) \cap Keys(val) # {})
      IN  IF v = Empty \/ InSeq(v, allOf) \/ v = Wildcard
          THEN AllLoop(vs, i + 1, val, fallback, allOf)
          ELSE AllLoop(vs, i + 1, IF fb THEN val ELSE Update(val, v), fb,
                       Append(allOf, v))

\* The result of an intersection from the fragments of its validators.
IntersectionMerge(vs) == AllLoop(vs, 1, Empty, FALSE, <<>>)

(***************************************************************************)
(* Mapping                                                                 *)
(***************************************************************************)
\* additional_properties is <<>> (None), <<APTrue>> or <<APFrag(pval)>>.
Truthy(additional_properties) ==
    /\ additional_properties # <<>>
    /\ additional_properties[1].b \/ additional_properties[1].f[1] # Empty

\* pval for one key: the converted value with the marker's description and
\* default, then ensure_default.
PropertyValue(key, converted) ==
    LET p1 == IF key.marker # "none" /\ key.description # ""
              THEN Put(converted, "description", key.description)
              ELSE converted
        p2 == IF key.marker \in {"Required", "Optional"} /\ key.default # <<>>
              THEN Put(p1, "default", key.default[1])
              ELSE p1
    IN  ensure_default(p2)

\* for val in key.validators: properties[...] = pval
RECURSIVE AnyKeyLoop(_, _, _, _)
AnyKeyLoop(key, j, pval, properties) ==
    IF j > Len(key.names) THEN properties
    ELSE AnyKeyLoop(key, j + 1, pval,
                    SetProp(properties, key.names[j],
                            IF key.mdesc[j] # ""
                            THEN Put(pval, "description", key.mdesc[j])
                            ELSE pval))

\* The loop over schema.items(), then the assembly of val.
RECURSIVE MappingLoop(_, _, _, _, _, _)
MappingLoop(keys, converted, i, properties, required, additional_properties) ==
    IF i > Len(keys)
    THEN LET v0 == Put(Empty, "type", "object")
             v1 == IF properties # NoProps \/ ~Truthy(additional_properties)
                   THEN Put(Put(v0, "properties", properties), "required", required)
                   ELSE v0
         IN  IF Truthy(additional_properties)
             THEN Put(v1, "additionalProperties", additional_properties[1])
             ELSE v1
    ELSE
      LET key == keys[i]
          pval == PropertyValue(key, converted[i])
          req == IF key.marker = "Required"
                 THEN Append(required, StrOfKey(key))
                 ELSE required
      IN  IF key.marker = "none" /\ key.kind = "any"
          THEN MappingLoop(keys, converted, i + 1,
                           AnyKeyLoop(key, 1, pval, properties), req,
                           additional_properties)
          ELSE IF key.kind = "str"
          THEN MappingLoop(keys, converted, i + 1,
                           SetProp(properties, key.names[1], pval), req,
                           additional_properties)
          ELSE IF pval = Wildcard
          THEN MappingLoop(keys, converted, i + 1, properties, req, <<APTrue>>)
          ELSE MappingLoop(keys, converted, i + 1, properties, req,
                           IF additional_properties = <<>>
                           THEN <<APFrag(pval)>>
                           ELSE additional_properties)

ConvertMapping(keys, converted, additional_properties) ==
    MappingLoop(keys, converted, 1, NoProps, <<>>, additional_properties)

(***************************************************************************)
(* convert                                                                 *)
(***************************************************************************)
NotTypeVar(n) == n.k # "TypeVar"

RECURSIVE convert(_)
RECURSIVE ConvertType(_)

\* [convert(c) for c in kids]
ConvertKids(kids) == [i \in 1..Len(kids) |-> convert(kids[i])]

\* The dispatch before vol.Coerce is unwrapped: vol.Schema, vol.Object,
\* Mapping, the validators.
convert(s) ==
    LET additional_properties == IF s.k = "Schema" /\ s.extra THEN <<APTrue>> ELSE <<>>
        s1 == IF s.k = "Schema" THEN s.kids[1] ELSE s
        n == IF s1.k = "Object" THEN s1.kids[1] ELSE s1
        rs == ConvertKids(n.kids)
        alts == UnionAlternatives(n.kids)
        ars == ConvertKids(alts)
    IN  CASE n.k = "Mapping" ->
               IF FirstError(rs) # "ok" THEN Raise(FirstError(rs))
               ELSE Ok(ConvertMapping(n.keys, Values(rs), additional_properties))
          [] n.k = "All" ->
               IF FirstError(rs) # "ok" THEN Raise(FirstError(rs))
               ELSE Ok(IntersectionMerge(Values(rs)))
          [] n.k \in {"Clamp", "Range"} -> Ok(ConvertRange(n))
          [] n.k = "Length" -> Ok(ConvertLength(n))
          [] n.k = "Datetime" -> Ok(ConvertDatetime)
          [] n.k = "Match" -> Ok(ConvertMatch(n))
          [] n.k = "In" -> ConvertIn(n)
          [] n.k = "Format" -> Ok(ConvertFormat(n))
          [] n.k = "Any" ->
               IF FirstError(ars) # "ok" THEN Raise(FirstError(ars))
               ELSE Ok(UnionResult(UnionNullable(n.kids), Values(ars)))
          [] n.k = "Coerce" -> ConvertType(n.kids[1])
          [] OTHER -> ConvertType(n)

\* The dispatch from the literal test on: literals, sequences, types,
\* callables; anything else is not convertible.
ConvertType(n) ==
    LET one == convert(n.kids[1])
        args == SelectSeq(n.kids, NotTypeVar)
        resolved == IF n.name = "Union"
                    THEN IF Len(args) > 1
                         THEN convert([Node("Any") EXCEPT !.kids = args])
                         ELSE convert(args[1])
                    ELSE one
    IN  CASE n.k = "Literal" -> Ok(Put(Empty, "enum", n.lit))
          [] n.k \in {"Generic", "Sequence"} ->
               IF Len(n.kids) = 1
               THEN IF one.st # "ok" THEN one
                    ELSE Ok(Put(Put(Empty, "type", "array"), "items",
                                ensure_default(one.v)))
               ELSE Raise("AttributeError")
          [] n.k = "Primitive" -> Ok(Put(Empty, "type", TYPES_MAP[n.name]))
          [] n.k = "DictGeneric" ->
               IF n.name = "Any" THEN Ok(Wildcard)
               ELSE convert([Node("Mapping") EXCEPT !.keys = n.keys, !.kids = n.kids])
          [] n.k = "TypeDict" -> Ok(Wildcard)
          [] n.k = "TypeList" ->
               Ok(Put(Put(Empty, "type", "array"), "items", ensure_default(Empty)))
          [] n.k = "Enum" -> Ok(Put(Empty, "enum", n.lit))
          [] n.k = "NoneType" -> Ok(Put(Empty, "enum", <<NoneLit>>))
          [] n.k = "object" -> Ok(Wildcard)
          [] n.k = "Callable" ->
               IF n.name \in {"Any", "TypeVar"} THEN Ok(Empty)
               ELSE IF n.name = "Union"
                       /\ (Len(args) = 0 \/ (Len(args) = 1 /\ args[1].k = "NoneType"))
               THEN Ok(Empty)
               ELSE IF resolved.st # "ok" THEN resolved
               ELSE Ok(ensure_default(resolved.v))
          [] OTHER -> Raise("ValueError")

(***************************************************************************)
(* A call of convert                                                       *)
(***************************************************************************)
\* convert(schema) returns a fragment.
Return ==
    /\ pc = "call"
    /\ convert(schema).st = "ok"
    /\ pc' = "returned"
    /\ result' = convert(schema).v
    /\ UNCHANGED <<schema, error>>

\* convert(schema) raises.
Fail ==
    /\ pc = "call"
    /\ convert(schema).st # "ok"
    /\ pc' = "raised"
    /\ error' = convert(schema).st
    /\ UNCHANGED <<schema, result>>

Next == Return \/ Fail

(***************************************************************************)
(* Schemas: the objects a caller builds with voluptuous.                   *)
(***************************************************************************)
Primitive(name) == [Node("Primitive") EXCEPT !.name = name]

Literal(l) == [Node("Literal") EXCEPT !.lit = <<l>>]

Range(lo, hi, loInc, hiInc) ==
    [Node("Range") EXCEPT !.lo = lo, !.hi = hi, !.loInc = loInc, !.hiInc = hiInc]

Clamp(lo, hi) == [Node("Clamp") EXCEPT !.lo = lo, !.hi = hi]

Length(lo, hi) == [Node("Length") EXCEPT !.lo = lo, !.hi = hi]

Match(pattern) == [Node("Match") EXCEPT !.name = pattern]

In(container, values) == [Node("In") EXCEPT !.name = container, !.lit = values]

Format(name) == [Node("Format") EXCEPT !.name = name]

VolAny(validators) == [Node("Any") EXCEPT !.kids = validators]

All(validators) == [Node("All") EXCEPT !.kids = validators]

Coerce(type) == [Node("Coerce") EXCEPT !.kids = <<type>>]

\* A list, or a tuple.
Sequence(elements) == [Node("Sequence") EXCEPT !.kids = elements]

\* list[X], set[X], tuple[X, ...]
Generic(arg) == [Node("Generic") EXCEPT !.kids = <<arg>>]

\* dict[K, V] with V a type; dict[K, Any]
DictGeneric(key, value) == [Node("DictGeneric") EXCEPT !.keys = <<key>>, !.kids = <<value>>]

DictAny == [Node("DictGeneric") EXCEPT !.name = "Any"]

EnumType(values) == [Node("Enum") EXCEPT !.lit = values]

\* A callable whose first parameter is annotated with a type, with a Union,
\* with Any or a TypeVar, or not at all.
Callable(hint, args) == [Node("Callable") EXCEPT !.name = hint, !.kids = args]

Mapping(keys, values) == [Node("Mapping") EXCEPT !.keys = keys, !.kids = values]

Schema(inner, extra) == [Node("Schema") EXCEPT !.kids = <<inner>>, !.extra = extra]

Object(inner) == [Node("Object") EXCEPT !.kids = <<inner>>]

\* An object of no kind convert recognizes (not callable either).
Unknown == Node("Unknown")

\* All sequences over S of length at most n.
SeqsUpTo(S, n) == UNION {[1..m -> S] : m \in 0..n}

(***************************************************************************)
(* Unions: vol.Any over up to MaxAlternatives alternatives.                *)
(***************************************************************************)
MaxAlternatives == 3

UnionMembers ==
    {Primitive("str"), Primitive("int"),
     Literal(NoneLit), Node("NoneType"), Literal(StrLit("x")),
     VolAny(<<Literal(NoneLit), Primitive("str")>>),
     VolAny(<<Node("NoneType"), Primitive("int")>>),
     VolAny(<<Primitive("str"), Primitive("int")>>),
     VolAny(<<Literal(NoneLit), Primitive("str"), Primitive("int")>>),
     Range(<<1>>, <<>>, TRUE, TRUE),
     Node("object"),
     Sequence(<<Primitive("int"), Primitive("str")>>),
     Unknown}

UnionSchemas(n) == {VolAny(validators) : validators \in SeqsUpTo(UnionMembers, n)}

InitUnion ==
    /\ schema \in UnionSchemas(MaxAlternatives)
    /\ pc = "call"
    /\ result = Empty
    /\ error = ""

SpecUnion == InitUnion /\ [][Next]_vars

(***************************************************************************)
(* What the specification says of a union, stated without the code's loop. *)
(***************************************************************************)
\* The alternatives of a union that are not null, and whether one is null.
NonNullAlternatives(node) == SelectSeq(node.kids, NotNull)

HasNullAlternative(node) == \E i \in 1..Len(node.kids) : IsNull(node.kids[i])

\* The fragments of the non-null alternatives, when all of them convert.
AlternativesConvert(node) ==
    \A i \in 1..Len(NonNullAlternatives(node)) :
        convert(NonNullAlternatives(node)[i]).st = "ok"

AlternativeFragments(node) ==
    [i \in 1..Len(NonNullAlternatives(node)) |-> convert(NonNullAlternatives(node)[i]).v]

\* A fragment without its nullable flag.
Base(f) == Pop(f, "nullable")

\* The survivors of deduplication: one entry per distinct base fragment, in
\* the order the bases first occur, nullable when any occurrence is.
RECURSIVE SurvivorsFrom(_, _)
SurvivorsFrom(frs, i) ==
    IF i > Len(frs) THEN <<>>
    ELSE IF \E j \in 1..(i - 1) : Base(frs[j]) = Base(frs[i])
    THEN SurvivorsFrom(frs, i + 1)
    ELSE <<IF \E j \in 1..Len(frs) : Base(frs[j]) = Base(frs[i]) /\ IsNullable(frs[j])
           THEN Put(Base(frs[i]), "nullable", TRUE)
           ELSE Base(frs[i])>> \o SurvivorsFrom(frs, i + 1)

Survivors(frs) == SurvivorsFrom(frs, 1)

NoTwins(L) ==
    \A i, j \in 1..Len(L) : i # j => Base(L[i]) # Base(L[j])

\* C4: a union with exactly one non-null alternative X returns exactly the
\* fragment of X, with no anyOf wrapper, and with nullable = true added if
\* and only if the union also held a null alternative.
C4_SingleAlternativeUnwrapped ==
    (/\ pc # "call"
     /\ schema.k = "Any"
     /\ Len(NonNullAlternatives(schema)) = 1
     /\ AlternativesConvert(schema))
    => /\ pc = "returned"
       /\ result = IF HasNullAlternative(schema)
                   THEN Put(AlternativeFragments(schema)[1], "nullable", TRUE)
                   ELSE AlternativeFragments(schema)[1]

\* C4 happens: a union of null and one other alternative has returned that
\* alternative's fragment, made nullable.
C4_Witness ==
    /\ pc = "returned"
    /\ schema.k = "Any"
    /\ Len(NonNullAlternatives(schema)) = 1
    /\ HasNullAlternative(schema)
    /\ ~IsNullable(AlternativeFragments(schema)[1])
    /\ IsNullable(result)

\* C5: a union of two or more non-null alternatives, none of them the
\* permissive fragment, in any order: the survivors hold no two identical
\* fragments and never a fragment beside its nullable twin; a fragment whose
\* nullable twin occurs survives once, nullable; the result is anyOf of the
\* survivors in first-occurrence order, or the one survivor itself (with
\* the union's own nullable flag when it held a null alternative).
C5_UnionDeduplicated ==
    (/\ pc # "call"
     /\ schema.k = "Any"
     /\ Len(NonNullAlternatives(schema)) >= 2
     /\ AlternativesConvert(schema)
     /\ ~InSeq(Wildcard, AlternativeFragments(schema)))
    => LET S == Survivors(AlternativeFragments(schema))
           inner == IF Len(S) = 1 THEN S[1] ELSE Put(Empty, "anyOf", S)
       IN  /\ NoTwins(S)
           /\ pc = "returned"
           /\ result = IF HasNullAlternative(schema)
                       THEN Put(inner, "nullable", TRUE)
                       ELSE inner

\* C5 happens: a fragment and its nullable twin were both among the
\* alternatives, beside another fragment, and the union has returned.
C5_Witness ==
    /\ pc = "returned"
    /\ schema.k = "Any"
    /\ Len(NonNullAlternatives(schema)) >= 3
    /\ ~InSeq(Wildcard, AlternativeFragments(schema))
    /\ \E i, j \in 1..Len(AlternativeFragments(schema)) :
          /\ i < j
          /\ ~IsNullable(AlternativeFragments(schema)[i])
          /\ AlternativeFragments(schema)[j] =
                Put(AlternativeFragments(schema)[i], "nullable", TRUE)
    /\ Has(result, "anyOf")
    /\ Len(Get(result, "anyOf")) = 2

\* C9: a union whose alternatives are all null returns the empty fragment
\* with nullable = true, and no anyOf key.
C9_AllNullUnionIsEmptyNullable ==
    (/\ pc # "call"
     /\ schema.k = "Any"
     /\ Len(schema.kids) >= 1
     /\ Len(NonNullAlternatives(schema)) = 0)
    => /\ pc = "returned"
       /\ result = Put(Empty, "nullable", TRUE)
       /\ ~Has(result, "anyOf")

(***************************************************************************)
(* Intersections: vol.All over up to MaxValidators validators.             *)
(***************************************************************************)
MaxValidators == 3

IntersectionMembers ==
    {Primitive("int"), Primitive("str"),
     Range(<<1>>, <<5>>, TRUE, TRUE), Range(<<1>>, <<>>, TRUE, TRUE),
     Range(<<>>, <<5>>, TRUE, FALSE),
     Length(<<1>>, <<>>), Match("^a"), Format("lower"), Node("Datetime"),
     Literal(StrLit("x")),
     Node("object"), Callable("Any", <<>>),
     VolAny(<<Primitive("str"), Primitive("int")>>),
     Sequence(<<>>), Unknown}

IntersectionSchemas(n) ==
    {All(validators) : validators \in SeqsUpTo(IntersectionMembers, n)}

InitIntersection ==
    /\ schema \in IntersectionSchemas(MaxValidators)
    /\ pc = "call"
    /\ result = Empty
    /\ error = ""

SpecIntersection == InitIntersection /\ [][Next]_vars

\* The shape keywords of the specification, and the fallback type it
\* inserts when a fragment holds none of them.
ShapeKeywords == {"type", "anyOf", "allOf", "enum", "not"}

HasShape(f) == Keys(f) \cap ShapeKeywords # {}

WithFallbackType(f) == IF HasShape(f) THEN f ELSE Put(f, "type", "string")

MembersConvert(node) == \A i \in 1..Len(node.kids) : convert(node.kids[i]).st = "ok"

MemberFragments(node) == [i \in 1..Len(node.kids) |-> convert(node.kids[i]).v]

\* The accepted fragments: in order, those that are not empty, not the
\* permissive fragment and not a duplicate of an earlier accepted one.
RECURSIVE AcceptedFrom(_, _)
AcceptedFrom(frs, i) ==
    IF i > Len(frs) THEN <<>>
    ELSE IF \/ frs[i] = Empty
            \/ frs[i] = Wildcard
            \/ \E j \in 1..(i - 1) : frs[j] = frs[i]
    THEN AcceptedFrom(frs, i + 1)
    ELSE <<frs[i]>> \o AcceptedFrom(frs, i + 1)

Accepted(frs) == AcceptedFrom(frs, 1)

PairwiseDisjoint(A) ==
    \A i, j \in 1..Len(A) : i # j => Keys(A[i]) \cap Keys(A[j]) = {}

\* The key-wise union of fragments with pairwise disjoint key sets.
KeyUnion(A) ==
    [key \in FragKeys |->
        IF \E i \in 1..Len(A) : Has(A[i], key)
        THEN A[CHOOSE i \in 1..Len(A) : Has(A[i], key)][key]
        ELSE <<>>]

\* The members of an intersection in another order.
Permuted(node, p) == All([i \in 1..Len(node.kids) |-> node.kids[p[i]]])

\* What an intersection returns; the fallback type is inserted by the rule
\* of the specification (asSpecified) or by ensure_default.
IntersectionReturns(asSpecified) ==
    (/\ pc # "call"
     /\ schema.k = "All"
     /\ MembersConvert(schema))
    => LET A == Accepted(MemberFragments(schema))
       IN  /\ pc = "returned"
           /\ IF PairwiseDisjoint(A)
              THEN /\ result = IF asSpecified
                               THEN WithFallbackType(KeyUnion(A))
                               ELSE ensure_default(KeyUnion(A))
                   /\ \A p \in Permutations(1..Len(schema.kids)) :
                         convert(Permuted(schema, p)) = Ok(result)
              ELSE result = Put(Empty, "allOf", A)

\* C6: an intersection whose accepted fragments have pairwise disjoint key
\* sets returns their key-wise union, plus the fallback type when no shape
\* keyword results, the same for every permutation of the members; when an
\* accepted fragment shares a key with an earlier one it returns allOf of
\* all the accepted fragments in accepted order.
C6_IntersectionMergeOrAllOf == IntersectionReturns(TRUE)

\* The same statement with the fallback rule the code applies (ensure_default,
\* which does not count enum as a shape keyword).
IntersectionMergeWithEnsureDefault == IntersectionReturns(FALSE)

\* The two cases of the statement happen: a merge of disjoint fragments,
\* and a collision detected after a disjoint fragment was merged.
IntersectionMergeReached ==
    /\ pc = "returned"
    /\ schema.k = "All"
    /\ Len(Accepted(MemberFragments(schema))) = 3
    /\ PairwiseDisjoint(Accepted(MemberFragments(schema)))

IntersectionCollisionReached ==
    /\ pc = "returned"
    /\ schema.k = "All"
    /\ Len(Accepted(MemberFragments(schema))) = 3
    /\ Keys(Accepted(MemberFragments(schema))[1])
         \cap Keys(Accepted(MemberFragments(schema))[2]) = {}
    /\ ~PairwiseDisjoint(Accepted(MemberFragments(schema)))
    /\ Has(result, "allOf")

(***************************************************************************)
(* Mappings: dicts of up to MaxEntries entries, bare or in a vol.Schema    *)
(* that allows extra keys.                                                 *)
(***************************************************************************)
MaxEntries == 3

MappingKeys ==
    {Key("Required", "str", <<"a">>),
     Key("Optional", "str", <<"a">>),
     [Key("Optional", "str", <<"b">>) EXCEPT !.description = "about b",
                                             !.default = <<StrLit("x")>>],
     Key("none", "str", <<"c">>),
     Key("Required", "any", <<"a", "b">>),
     Key("Required", "any", <<"c", "d">>),
     [Key("none", "any", <<"a", "d">>) EXCEPT !.mdesc = <<"", "about d">>],
     Key("none", "type", <<"<class 'str'>">>),
     Key("Optional", "type", <<"<class 'int'>">>)}

MappingValues == {Primitive("str"), Primitive("int"), Node("object"), Unknown}

\* Two keys that are the same key of a dict: markers compare by what they mark.
SameDictKey(k1, k2) == k1.kind = k2.kind /\ k1.names = k2.names

Entries == MappingKeys \X MappingValues

MappingsOf(es) ==
    Mapping([i \in 1..Len(es) |-> es[i][1]], [i \in 1..Len(es) |-> es[i][2]])

\* The dicts of at most n entries, no key twice.
Mappings(n) ==
    {MappingsOf(es) : es \in
        {e \in SeqsUpTo(Entries, n) :
            \A i, j \in 1..Len(e) : i # j => ~SameDictKey(e[i][1], e[j][1])}}

MappingSchemas(n) == Mappings(n) \cup {Schema(m, TRUE) : m \in Mappings(n)}

InitMapping ==
    /\ schema \in MappingSchemas(MaxEntries)
    /\ pc = "call"
    /\ result = Empty
    /\ error = ""

SpecMapping == InitMapping /\ [][Next]_vars

\* The Mapping node of a schema of MappingSchemas.
MappingOf(s) == IF s.k = "Schema" THEN s.kids[1] ELSE s

IsPresenceGroup(key) == key.marker = "Required" /\ key.kind = "any"

\* The presence groups of a mapping, in declaration order.
GroupIndexes(m) == {i \in 1..Len(m.keys) : IsPresenceGroup(m.keys[i])}

\* The fixed key names marked Required, in declaration order.
RECURSIVE RequiredNamesFrom(_, _)
RequiredNamesFrom(keys, i) ==
    IF i > Len(keys) THEN <<>>
    ELSE IF keys[i].marker = "Required" /\ keys[i].kind = "str"
    THEN <<keys[i].names[1]>> \o RequiredNamesFrom(keys, i + 1)
    ELSE RequiredNamesFrom(keys, i + 1)

\* The required list of a fragment (empty when it has none).
RequiredOf(f) == IF Has(f, "required") THEN Get(f, "required") ELSE <<>>

\* C1: the required list of a Mapping's fragment holds exactly the fixed key
\* names marked Required that are not Presence Groups, in declaration
\* order; a Presence Group contributes no entry.
C1_RequiredIsFixedRequiredNames ==
    (pc = "returned" /\ MappingOf(schema).k = "Mapping")
    => RequiredOf(result) = RequiredNamesFrom(MappingOf(schema).keys, 1)

\* The groups' member lists, in declaration order.
RECURSIVE GroupsFrom(_, _)
GroupsFrom(keys, i) ==
    IF i > Len(keys) THEN <<>>
    ELSE IF IsPresenceGroup(keys[i])
    THEN <<keys[i].names>> \o GroupsFrom(keys, i + 1)
    ELSE GroupsFrom(keys, i + 1)

\* The cartesian product of the groups, the first varying slowest.
RECURSIVE Product(_)
RECURSIVE PrefixEach(_, _, _)
PrefixEach(members, j, tuples) ==
    IF j > Len(members) THEN <<>>
    ELSE [t \in 1..Len(tuples) |-> <<members[j]>> \o tuples[t]]
         \o PrefixEach(members, j + 1, tuples)

Product(groups) ==
    IF groups = <<>> THEN << <<>> >>
    ELSE PrefixEach(Head(groups), 1, Product(Tail(groups)))

\* C2: a Mapping with k >= 1 Presence Groups returns an anyOf list with one
\* entry {required: [one member of each group]} per tuple of the cartesian
\* product of the groups, the first declared group varying slowest.
C2_PresenceGroupsProduct ==
    (/\ pc = "returned"
     /\ MappingOf(schema).k = "Mapping"
     /\ GroupIndexes(MappingOf(schema)) # {})
    => LET tuples == Product(GroupsFrom(MappingOf(schema).keys, 1))
       IN  /\ Has(result, "anyOf")
           /\ Get(result, "anyOf") =
                 [t \in 1..Len(tuples) |-> Put(Empty, "required", tuples[t])]

\* The entry of properties under a name: <<>> when there is none.
PropertyOf(f, name) ==
    IF Has(f, "properties") /\ name \in DOMAIN Get(f, "properties")
    THEN <<Get(f, "properties")[name]>>
    ELSE <<>>

\* The schema without the i-th entry of its mapping.
RemoveAt(seq, i) == [j \in 1..(Len(seq) - 1) |-> IF j < i THEN seq[j] ELSE seq[j + 1]]

WithoutEntry(s, i) ==
    LET m == MappingOf(s)
        m2 == Mapping(RemoveAt(m.keys, i), RemoveAt(m.kids, i))
    IN  IF s.k = "Schema" THEN Schema(m2, s.extra) ELSE m2

\* C3: under each member key of a Presence Group, properties holds: for a
\* Wildcard-valued group, exactly what the other declarations of the key
\* produce (and additionalProperties is what it is without the group); for
\* a type-bearing group, the group's converted value.
C3_GroupMemberProperties ==
    (pc = "returned" /\ MappingOf(schema).k = "Mapping")
    => \A i \in GroupIndexes(MappingOf(schema)) :
          LET value == convert(MappingOf(schema).kids[i]).v
              others == convert(WithoutEntry(schema, i)).v
          IN  \A j \in 1..Len(MappingOf(schema).keys[i].names) :
                 LET name == MappingOf(schema).keys[i].names[j]
                 IN  IF value = Wildcard
                     THEN /\ PropertyOf(result, name) = PropertyOf(others, name)
                          /\ result["additionalProperties"] = others["additionalProperties"]
                     ELSE PropertyOf(result, name) = <<WithFallbackType(value)>>

(***************************************************************************)
(* Schemas of every kind: the leaves, the combinators over up to           *)
(* MaxChildren children, and each of those nested one level deeper.        *)
(***************************************************************************)
MaxChildren == 2

Leaves ==
    {Primitive("int"), Primitive("str"), Primitive("float"), Primitive("bool"),
     Literal(StrLit("x")), Literal(IntLit(5)), Literal(NoneLit),
     Range(<<1>>, <<>>, TRUE, TRUE), Range(<<1>>, <<5>>, FALSE, FALSE),
     Clamp(<<1>>, <<5>>), Length(<<1>>, <<3>>), Node("Datetime"), Match("^a"),
     In("list", <<IntLit(5), IntLit(6)>>), In("Mapping", <<StrLit("x")>>),
     In("set", <<IntLit(5)>>), In("list", <<>>),
     Format("lower"), Format("email"),
     Node("object"), Node("TypeDict"), Node("TypeList"), Node("NoneType"),
     EnumType(<<IntLit(5), StrLit("x")>>), DictAny,
     Callable("Any", <<>>), Callable("TypeVar", <<>>),
     Unknown}

Children ==
    {Primitive("int"), Primitive("str"), Literal(StrLit("x")), Literal(NoneLit),
     EnumType(<<IntLit(5), StrLit("x")>>),
     Range(<<1>>, <<>>, TRUE, TRUE), Length(<<1>>, <<3>>), Node("object"),
     Callable("Any", <<>>), Unknown}

\* The types a parameter annotation or vol.Coerce names.
Types ==
    {Primitive("int"), Primitive("str"), Node("NoneType"), Node("TypeList"),
     EnumType(<<IntLit(5), StrLit("x")>>)}

PropertyKeys ==
    {Key("none", "str", <<"a">>),
     [Key("Optional", "str", <<"a">>) EXCEPT !.description = "about a",
                                             !.default = <<StrLit("x")>>],
     Key("Required", "str", <<"a">>),
     Key("none", "type", <<"<class 'str'>">>)}

\* vol.Any, vol.All and sequences over at most n children drawn from C.
Combinators(C, n) ==
    {[Node(kind) EXCEPT !.kids = kids] :
        kind \in {"Any", "All", "Sequence"}, kids \in SeqsUpTo(C, n)}

Level1(n) ==
    Leaves
    \cup Combinators(Children, n)
    \cup {Callable("Union", args) : args \in SeqsUpTo(Types \cup {Node("TypeVar")}, n)}
    \cup {Coerce(t) : t \in Types}
    \cup {Callable("Plain", <<t>>) : t \in Types}

\* A schema nested one level deeper.
Wrappers ==
    {"Sequence", "Generic", "Any", "All", "Callable", "DictGeneric", "Schema", "Object"}

Wrap(w, x) ==
    CASE w = "Sequence" -> Sequence(<<x>>)
      [] w = "Generic" -> Generic(x)
      [] w = "Any" -> VolAny(<<x, Primitive("str")>>)
      [] w = "All" -> All(<<x, Length(<<1>>, <<3>>)>>)
      [] w = "Callable" -> Callable("Plain", <<x>>)
      [] w = "DictGeneric" -> DictGeneric(Key("none", "type", <<"<class 'str'>">>), x)
      [] w = "Schema" -> Schema(x, TRUE)
      [] w = "Object" -> Object(Mapping(<<Key("none", "str", <<"a">>)>>, <<x>>))

Schemas(n) ==
    Level1(n)
    \cup {Wrap(w, x) : w \in Wrappers, x \in Level1(n)}
    \cup {Mapping(<<key>>, <<x>>) : key \in PropertyKeys, x \in Level1(n)}

Init ==
    /\ schema \in Schemas(MaxChildren)
    /\ pc = "call"
    /\ result = Empty
    /\ error = ""

Spec == Init /\ [][Next]_vars

\* The fragments nested directly in a fragment, and all those of a document.
PropertyFragments(f) ==
    IF Has(f, "properties")
    THEN {Get(f, "properties")[name] : name \in DOMAIN Get(f, "properties")}
    ELSE {}

ItemsFragments(f) == IF Has(f, "items") THEN {Get(f, "items")} ELSE {}

AdditionalFragments(f) ==
    IF Has(f, "additionalProperties") /\ ~Get(f, "additionalProperties").b
    THEN {Get(f, "additionalProperties").f[1]}
    ELSE {}

ListFragments(f, key) ==
    IF Has(f, key) THEN {Get(f, key)[i] : i \in 1..Len(Get(f, key))} ELSE {}

Nested(f) ==
    PropertyFragments(f) \cup ItemsFragments(f) \cup AdditionalFragments(f)
    \cup ListFragments(f, "anyOf") \cup ListFragments(f, "allOf")

RECURSIVE Fragments(_)
Fragments(f) == {f} \cup UNION {Fragments(g) : g \in Nested(f)}

\* C7 as stated: every fragment of a returned document that carries a key,
\* the root included, carries one of type, anyOf, allOf, enum, not.
C7_EveryFragmentTyped ==
    pc = "returned" => \A f \in Fragments(result) : Keys(f) # {} => HasShape(f)

\* C7 as amended: every fragment stored under properties, under items or as
\* a fragment-valued additionalProperties, anywhere in a returned document,
\* carries one of type, anyOf, allOf, enum, not.  (The root fragment and the
\* entries of anyOf and allOf may be untyped constraint fragments.)
C7_StoredFragmentsTyped ==
    pc = "returned"
    => \A f \in Fragments(result) :
          \A g \in PropertyFragments(f) \cup ItemsFragments(f) \cup AdditionalFragments(f) :
             HasShape(g)

\* C7 happens: a constraint fragment stored under items, under properties
\* or under additionalProperties was given the fallback type.
C7_Witness ==
    /\ pc = "returned"
    /\ schema.k \in {"Sequence", "Mapping"}
    /\ \E g \in Nested(result) :
          /\ Has(g, "minimum") \/ Has(g, "minLength")
          /\ Keys(g) \cap {"anyOf", "allOf", "enum", "not"} = {}
          /\ Get(g, "type") = "string"

\* Whether a schema tree holds a node of no recognized kind.
RECURSIVE HoldsUnknown(_)
HoldsUnknown(node) ==
    node.k = "Unknown" \/ \E i \in 1..Len(node.kids) : HoldsUnknown(node.kids[i])

\* C8: convert returns a fragment for every tree of recognized node kinds,
\* and fails with the one error kind (ValueError, "Unable to convert
\* schema") for every tree holding a node of no recognized kind; no other
\* failure is raised.
C8_TotalWithSingleErrorKind ==
    pc # "call"
    => IF HoldsUnknown(schema)
       THEN pc = "raised" /\ error = "ValueError"
       ELSE pc = "returned"

\* A literal scalar, null or an EnumType, and the fragment of one.
IsEnumValued(node) == node.k \in {"Literal", "Enum", "NoneType"}

EnumFragment(node) ==
    Put(Empty, "enum", IF node.k = "NoneType" THEN <<NoneLit>> ELSE node.lit)

\* The description and default a marker adds to a property.
Annotated(key, f) ==
    LET f1 == IF key.description # "" THEN Put(f, "description", key.description) ELSE f
    IN  IF key.default # <<>> THEN Put(f1, "default", key.default[1]) ELSE f1

\* C10: the fallback type is inserted only when none of type, anyOf, allOf,
\* enum, not is present: a Mapping property, a single-child sequence item
\* or a Callable-resolved node whose value is a literal scalar, null or an
\* EnumType is exactly {enum: [...]} (plus description/default for a
\* property), with no type key.
C10_EnumGetsNoFallbackType ==
    pc = "returned"
    => /\ (schema.k = "Mapping" /\ schema.keys[1].kind = "str" /\ IsEnumValued(schema.kids[1]))
          => Get(result, "properties")[schema.keys[1].names[1]]
                = Annotated(schema.keys[1], EnumFragment(schema.kids[1]))
       /\ (schema.k = "Sequence" /\ Len(schema.kids) = 1 /\ IsEnumValued(schema.kids[1]))
          => Get(result, "items") = EnumFragment(schema.kids[1])
       /\ (schema.k = "Callable" /\ schema.name = "Plain" /\ IsEnumValued(schema.kids[1]))
          => result = EnumFragment(schema.kids[1])

====
